---- MODULE Spec2Model ----
(***************************************************************************)
(* Model of the Netflix title pipeline of apputil.py: cleanNetflixData,    *)
(* add_ratings, load_data and recommend_movies (with keyword_match and     *)
(* genre_filter).                                                          *)
(*                                                                         *)
(* A text value is a sequence of one-character strings, so that trimming,  *)
(* case folding, splitting and substring search are computed, not assumed. *)
(* A DataFrame is a record [cols, rows]: the set of its column names and   *)
(* the sequence of its rows.  Columns that no operation modelled here      *)
(* reads back (date_added, rating, duration, country, director, cast and   *)
(* what is derived from them) are carried by name in cols only.  Text      *)
(* columns are taken to have pandas' object dtype.                         *)
(***************************************************************************)
EXTENDS Integers, Sequences, FiniteSets, TLC

VARIABLES
    caller,     \* who runs the pipeline: "direct" (cleanNetflixData alone), "load_data", "fixture"
    pc,         \* "start", "cleaned", "loaded", "shown" or "failed"
    raw,        \* the raw DataFrame handed to cleanNetflixData
    imdb,       \* title.basics merged with title.ratings on tconst
    tieOrder,   \* how the default (quicksort) sort_values orders rows of equal key
    cleaned,    \* the DataFrame returned by cleanNetflixData
    exploded,   \* [made, rows]: the row-per-genre projection returned with it
    df,         \* the collection handed to recommend_movies
    lastCall,   \* arguments and outcome of the latest recommend_movies call
    repeated,   \* the latest call had the arguments of the call before it
    err         \* the exception that ended the pipeline, or "none"

vars == <<caller, pc, raw, imdb, tieOrder, cleaned, exploded, df, lastCall, repeated, err>>

-----------------------------------------------------------------------------
(* Bounds *)

MaxRaw == 3        \* rows of a raw collection
MaxLoadRaw == 2    \* rows of a raw collection that is merged with ratings
MaxImdb == 2       \* external rating entries
MaxRows == 2       \* rows of a collection handed straight to recommend_movies
MaxTopN == 2       \* largest top_n

-----------------------------------------------------------------------------
(* Text *)

LowerAlpha == <<"a","b","c","d","e","f","g","h","i","j","k","l","m",
                "n","o","p","q","r","s","t","u","v","w","x","y","z">>
UpperAlpha == <<"A","B","C","D","E","F","G","H","I","J","K","L","M",
                "N","O","P","Q","R","S","T","U","V","W","X","Y","Z">>
DigitChars == <<"0","1","2","3","4","5","6","7","8","9">>

IndexIn(c, alpha) ==
    IF \E i \in 1..Len(alpha) : alpha[i] = c
    THEN CHOOSE i \in 1..Len(alpha) : alpha[i] = c
    ELSE 0

\* every character a text of the model is written with (NA's mark included)
Chars ==
    {LowerAlpha[i] : i \in 1..26} \cup {UpperAlpha[i] : i \in 1..26}
        \cup {DigitChars[i] : i \in 1..10} \cup {" ", ",", ".", "-", "<NA>"}

Letters == {LowerAlpha[i] : i \in 1..26} \cup {UpperAlpha[i] : i \in 1..26}
Digits == {DigitChars[i] : i \in 1..10}

LowerOf ==
    [c \in Chars |->
        IF IndexIn(c, UpperAlpha) > 0 THEN LowerAlpha[IndexIn(c, UpperAlpha)] ELSE c]
UpperOf ==
    [c \in Chars |->
        IF IndexIn(c, LowerAlpha) > 0 THEN UpperAlpha[IndexIn(c, LowerAlpha)] ELSE c]
DigitOf == [c \in Digits |-> IndexIn(c, DigitChars) - 1]

IsAlpha(c) == c \in Letters
ToLower(c) == LowerOf[c]
ToUpper(c) == UpperOf[c]

\* str.lower()
StrLower(s) == [i \in 1..Len(s) |-> ToLower(s[i])]

\* str.title(): a letter is upper-cased after a non-letter, lower-cased after a letter
Title(s) ==
    [i \in 1..Len(s) |->
        IF i = 1 \/ ~IsAlpha(s[i-1]) THEN ToUpper(s[i]) ELSE ToLower(s[i])]

RECURSIVE LStrip(_)
LStrip(s) == IF s # <<>> /\ s[1] = " " THEN LStrip(Tail(s)) ELSE s

RECURSIVE RStrip(_)
RStrip(s) ==
    IF s # <<>> /\ s[Len(s)] = " " THEN RStrip(SubSeq(s, 1, Len(s) - 1)) ELSE s

\* str.strip()
Strip(s) == RStrip(LStrip(s))

\* k in s, as a literal substring
Contains(s, k) ==
    \E i \in 0..(Len(s) - Len(k)) : SubSeq(s, i + 1, i + Len(k)) = k

\* np.nan in an object column
NA == <<"<NA>">>

sNan == <<"n","a","n">>
sNone == <<"N","o","n","e">>
sUnknown == <<"U","n","k","n","o","w","n">>
sMovie == <<"M","o","v","i","e">>
sTvShowTitled == <<"T","v"," ","S","h","o","w">>
sTVShow == <<"T","V"," ","S","h","o","w">>
sMovieType == <<"m","o","v","i","e">>

\* astype(str): a missing value becomes the text "nan"
AsStr(v) == IF v = NA THEN sNan ELSE v

\* lines 76-78: astype(str).str.strip(), then "", "nan" and "None" become missing
NormalizeObject(v) ==
    LET s == Strip(AsStr(v))
    IN  IF s = <<>> \/ s = sNan \/ s = sNone THEN NA ELSE s

\* fillna(x)
FillNa(v, x) == IF v = NA THEN x ELSE v

-----------------------------------------------------------------------------
(* cleanNetflixData *)

\* str.title() alone
NormalizeTypeTitleOnly(v) == IF v = NA THEN NA ELSE Title(v)

\* line 88: str.title(), then "Tv Show" -> "TV Show"; a missing value stays missing
NormalizeType(v) ==
    IF v = NA THEN NA
    ELSE LET t == Title(v) IN IF t = sTvShowTitled THEN sTVShow ELSE t

IsDigits(s) == \A i \in 1..Len(s) : s[i] \in Digits

RECURSIVE DigitsValue(_)
DigitsValue(s) ==
    IF s = <<>> THEN 0
    ELSE DigitsValue(SubSeq(s, 1, Len(s) - 1)) * 10 + DigitOf[s[Len(s)]]

NaN == [na |-> TRUE, val |-> 0, frac |-> FALSE]

\* pd.to_numeric(errors="coerce") of one cell, for decimal notation: an optional
\* sign, digits, an optional point and digits.  val is the integral part, frac
\* tells whether a non-zero fractional part follows.  Anything else is NaN.
ToNumeric(v) ==
    IF v = NA \/ v = <<>> THEN NaN
    ELSE
      LET neg  == v[1] = "-"
          body == IF neg THEN Tail(v) ELSE v
          dot  == IndexIn(".", body)
          ip   == IF dot = 0 THEN body ELSE SubSeq(body, 1, dot - 1)
          fp   == IF dot = 0 THEN <<>> ELSE SubSeq(body, dot + 1, Len(body))
      IN  IF IsDigits(ip) /\ IsDigits(fp) /\ (ip # <<>> \/ fp # <<>>)
          THEN [na   |-> FALSE,
                val  |-> IF neg THEN 0 - DigitsValue(ip) ELSE DigitsValue(ip),
                frac |-> DigitsValue(fp) # 0]
          ELSE NaN

\* astype("Int64") raises TypeError on a float that is no integer
Int64Castable(n) == n.na \/ ~n.frac

\* pd.Timestamp('now').year
CurrentYear == 2026

IntNA == [na |-> TRUE, val |-> 0]

\* lines 153-156: the Int64 value, cleared when above current_year + 1 or below 1900
ValidateYear(n) ==
    IF n.na THEN IntNA
    ELSE IF n.val > CurrentYear + 1 THEN IntNA
    ELSE IF n.val < 1900 THEN IntNA
    ELSE [na |-> FALSE, val |-> n.val]

RECURSIVE SplitComma(_)
SplitComma(s) ==
    LET i == IndexIn(",", s)
    IN  IF i = 0 THEN <<s>>
        ELSE <<SubSeq(s, 1, i - 1)>> \o SplitComma(SubSeq(s, i + 1, Len(s)))

\* str.split(r"\s*,\s*") of a trimmed text: the separators take the blanks around
\* each comma with them, so every piece comes out trimmed
SplitGenres(s) ==
    LET parts == SplitComma(s) IN [k \in 1..Len(parts) |-> Strip(parts[k])]

QualifierWords ==
    { <<"t","v"," ","s","h","o","w">>, <<"t","v"," ","s","h","o","w","s">>,
      <<"m","o","v","i","e">>,         <<"m","o","v","i","e","s">>,
      <<"s","e","r","i","e">>,         <<"s","e","r","i","e","s">>,
      <<"d","r","a","m","a">>,         <<"d","r","a","m","a","s">> }

\* s matches ^\s*(TV Shows?|Movies?|Series?|Dramas?)$ with re.IGNORECASE
MatchesQualifier(s) == StrLower(LStrip(s)) \in QualifierWords

\* line 135: re.sub removes the leftmost match that reaches the end, then strip()
StandardizeGenre(g) ==
    LET starts == {i \in 1..Len(g) : MatchesQualifier(SubSeq(g, i, Len(g)))}
    IN  IF starts = {} THEN Strip(g)
        ELSE Strip(SubSeq(g, 1, (CHOOSE i \in starts : \A j \in starts : i <= j) - 1))

\* lines 131-139
ParseGenres(listed_in, cols, standardizeGenres) ==
    IF "listed_in" \in cols
    THEN LET g == SplitGenres(FillNa(listed_in, sUnknown))
         IN  IF standardizeGenres THEN [k \in 1..Len(g) |-> StandardizeGenre(g[k])] ELSE g
    ELSE <<>>

\* the row-wise part of lines 76-139 and 153 for the row at index label i
CleanRecord(r, i, cols, standardizeGenres) ==
    LET listed == NormalizeObject(r.listed_in)
    IN  [row_idx      |-> i,
         show_id      |-> NormalizeObject(r.show_id),
         type         |-> IF "type" \in cols THEN NormalizeType(NormalizeObject(r.type)) ELSE NA,
         title        |-> NormalizeObject(r.title),
         listed_in    |-> listed,
         description  |-> NormalizeObject(r.description),
         genres       |-> ParseGenres(listed, cols, standardizeGenres),
         release_year |-> ToNumeric(NormalizeObject(r.release_year))]

RECURSIVE Pick(_, _, _)
\* the rows whose position is in keep, in order, from position i on
Pick(rows, keep, i) ==
    IF i > Len(rows) THEN <<>>
    ELSE (IF i \in keep THEN <<rows[i]>> ELSE <<>>) \o Pick(rows, keep, i + 1)

\* drop_duplicates(subset=[col]): keep="first"; missing keys count as equal
DropDuplicates(rows, col) ==
    Pick(rows, {i \in 1..Len(rows) : \A j \in 1..(i - 1) : rows[j][col] # rows[i][col]}, 1)

\* drop_duplicates(subset=["show_id"], keep="last")
DropDuplicateIdsKeepLast(rows) ==
    Pick(rows, {i \in 1..Len(rows) :
                   \A j \in (i + 1)..Len(rows) : rows[j].show_id # rows[i].show_id}, 1)

\* line 158
DropDuplicateIds(rows) == DropDuplicates(rows, "show_id")

RECURSIVE ExplodeFrom(_, _)
\* lines 143-149: one row per genre of each row, an empty list giving one row
\* whose genre is missing; row_idx is the index label of the row it came from
ExplodeFrom(rows, i) ==
    IF i > Len(rows) THEN <<>>
    ELSE LET r == rows[i]
             one(g) == [row_idx |-> r.row_idx, show_id |-> r.show_id,
                        title |-> r.title, genre |-> g]
         IN  (IF r.genres = <<>> THEN <<one(NA)>>
              ELSE [k \in 1..Len(r.genres) |-> one(r.genres[k])])
             \o ExplodeFrom(rows, i + 1)

ExplodeGenres(rows) == ExplodeFrom(rows, 1)

\* lines 161-162, and the reset_index of line 158 (row_idx keeps the old label)
WithFlags(r) ==
    [row_idx      |-> r.row_idx,
     show_id      |-> r.show_id,
     type         |-> r.type,
     title        |-> r.title,
     listed_in    |-> r.listed_in,
     description  |-> r.description,
     genres       |-> r.genres,
     release_year |-> r.release_year,
     is_movie     |-> r.type = sMovie,
     is_tv        |-> r.type = sTVShow]

RawCols ==
    {"show_id", "type", "title", "director", "cast", "country", "date_added",
     "release_year", "rating", "duration", "listed_in", "description"}

\* the columns cleanNetflixData adds
CleanedCols(cols) ==
    cols \cup {"duration_minutes", "seasons", "genres", "is_movie", "is_tv"}
         \cup (IF "date_added" \in cols THEN {"year_added", "month_added"} ELSE {})
         \cup (IF "country" \in cols THEN {"countries", "primary_country"} ELSE {})
         \cup (IF "director" \in cols THEN {"has_director"} ELSE {})
         \cup (IF "cast" \in cols THEN {"has_cast"} ELSE {})
         \cup (IF "release_year" \in cols THEN {"release_month", "release_day"} ELSE {})

EmptyFrame == [cols |-> {}, rows |-> <<>>]
NoExploded == [made |-> FALSE, rows |-> <<>>]

\* cleanNetflixData(df, explodeGenres=..., standardizeGenres=...)
CleanNetflixDataResult(frame, explodeGenres, standardizeGenres) ==
    LET parsed == [i \in 1..Len(frame.rows) |->
                      CleanRecord(frame.rows[i], i, frame.cols, standardizeGenres)]
        expl   == IF explodeGenres
                  THEN [made |-> TRUE, rows |-> ExplodeGenres(parsed)]
                  ELSE NoExploded
        castOk == "release_year" \in frame.cols =>
                      \A i \in 1..Len(parsed) : Int64Castable(parsed[i].release_year)
        years  == [i \in 1..Len(parsed) |->
                      [parsed[i] EXCEPT !.release_year =
                          IF "release_year" \in frame.cols
                          THEN ValidateYear(parsed[i].release_year) ELSE IntNA]]
        dedup  == DropDuplicateIds(years)
    IN  IF ~castOk
        THEN [ok |-> FALSE, error |-> "TypeError", frame |-> EmptyFrame, exploded |-> NoExploded]
        ELSE [ok |-> TRUE, error |-> "none",
              frame |-> [cols |-> CleanedCols(frame.cols),
                         rows |-> [i \in 1..Len(dedup) |-> WithFlags(dedup[i])]],
              exploded |-> expl]

-----------------------------------------------------------------------------
(* add_ratings *)

ImdbCols ==
    {"tconst", "primaryTitle", "originalTitle", "startYear", "titleType",
     "averageRating", "numVotes"}

\* line 37: imdb[imdb['titleType'] == "movie"]
MoviesOnly(entries) == SelectSeq(entries, LAMBDA e : e.titleType = sMovieType)

\* one row of the merge: the columns of both sides
Joined(l, e) ==
    [row_idx       |-> l.row_idx,
     show_id       |-> l.show_id,
     type          |-> l.type,
     title         |-> l.title,
     listed_in     |-> l.listed_in,
     description   |-> l.description,
     genres        |-> l.genres,
     release_year  |-> l.release_year,
     is_movie      |-> l.is_movie,
     is_tv         |-> l.is_tv,
     tconst        |-> e.tconst,
     primaryTitle  |-> e.primaryTitle,
     titleType     |-> e.titleType,
     averageRating |-> e.averageRating,
     numVotes      |-> e.numVotes]

RECURSIVE MergeFrom(_, _, _)
\* lines 43-48: inner merge on title = primaryTitle (exact), in the order of the
\* left rows; missing keys match each other
MergeFrom(left, right, i) ==
    IF i > Len(left) THEN <<>>
    ELSE LET m == SelectSeq(right, LAMBDA e : e.primaryTitle = left[i].title)
         IN  [k \in 1..Len(m) |-> Joined(left[i], m[k])] \o MergeFrom(left, right, i + 1)

MergeOnTitle(left, right) == MergeFrom(left, right, 1)

TieOrders == {"original", "reversed"}

\* sort_values(by=col, ascending=False) with the default kind: descending by
\* col; rows of equal key come in the order the sort in use leaves them in
SortDescBy(rows, col, tie) ==
    LET n == Len(rows)
        before(j, i) ==
            \/ rows[j][col] > rows[i][col]
            \/ /\ rows[j][col] = rows[i][col]
               /\ IF tie = "original" THEN j < i ELSE j > i
        pos(i) == 1 + Cardinality({j \in 1..n : j # i /\ before(j, i)})
    IN  [k \in 1..n |-> rows[CHOOSE i \in 1..n : pos(i) = k]]

\* sort_values(by='numVotes') with ascending left at its default
SortByVotesAscending(rows, tie) ==
    LET n == Len(rows)
        before(j, i) ==
            \/ rows[j].numVotes < rows[i].numVotes
            \/ /\ rows[j].numVotes = rows[i].numVotes
               /\ IF tie = "original" THEN j < i ELSE j > i
        pos(i) == 1 + Cardinality({j \in 1..n : j # i /\ before(j, i)})
    IN  [k \in 1..n |-> rows[CHOOSE i \in 1..n : pos(i) = k]]

\* line 53
SortByVotes(rows, tie) == SortDescBy(rows, "numVotes", tie)

\* line 56
DropDuplicateTitles(rows) == DropDuplicates(rows, "title")

\* add_ratings(df), with the two IMDB files already merged on tconst
AddRatingsResult(frame, entries, tie) ==
    [cols |-> frame.cols \cup ImdbCols,
     rows |-> DropDuplicateTitles(
                  SortByVotes(MergeOnTitle(frame.rows, MoviesOnly(entries)), tie))]

-----------------------------------------------------------------------------
(* recommend_movies *)

Modes == {"any", "all"}

Failure(e) == [ok |-> FALSE, error |-> e, rows |-> <<>>]
Success(rows) == [ok |-> TRUE, error |-> "none", rows |-> rows]

\* re.search(re.escape(k), desc, re.IGNORECASE): k occurs in desc, letter case aside
Matches(desc, k) == Contains(StrLower(desc), StrLower(k))

\* keyword_match(df, keywords, match_mode)
KeywordMatch(cols, rows, keywords, mode) ==
    IF "description" \notin cols THEN Failure("KeyError")
    ELSE IF mode = "all"
    THEN \* re.search on a missing description (a float) raises TypeError
         IF \E i \in 1..Len(rows) : rows[i].description = NA
         THEN Failure("TypeError")
         ELSE Success(SelectSeq(rows, LAMBDA r :
                  \A k \in 1..Len(keywords) : Matches(r.description, keywords[k])))
    ELSE \* str.contains(pattern, case=False, na=False)
         Success(SelectSeq(rows, LAMBDA r :
             /\ r.description # NA
             /\ \E k \in 1..Len(keywords) : Matches(r.description, keywords[k])))

\* match_genres(g) of genre_filter
MatchGenres(g, genre_list, mode) ==
    LET g_lower == {StrLower(g[i]) : i \in {j \in 1..Len(g) : g[j] # <<>>}}
    IN  IF mode = "all"
        THEN \A k \in 1..Len(genre_list) : StrLower(genre_list[k]) \in g_lower
        ELSE \E k \in 1..Len(genre_list) : StrLower(genre_list[k]) \in g_lower

\* genre_filter(df, genre_list, match_mode)
GenreFilter(cols, rows, genre_list, mode) ==
    IF "genres_list" \notin cols THEN Failure("KeyError")
    ELSE Success(SelectSeq(rows, LAMBDA r : MatchGenres(r.genres_list, genre_list, mode)))

\* the rows left unsorted
SortByRatingSkipped(rows, tie) == rows

\* line 217
SortByRating(rows, tie) == SortDescBy(rows, "averageRating", tie)

\* line 218
Project(r) ==
    [title |-> r.title, averageRating |-> r.averageRating,
     genres |-> r.genres, description |-> r.description]

\* line 219: head(top_n), top_n positive
HeadRows(rows, n) == SubSeq(rows, 1, IF n < Len(rows) THEN n ELSE Len(rows))

ResultCols == {"title", "averageRating", "genres", "description"}

\* recommend_movies(df, keywords, genres, top_n, keyword_match_mode, genre_match_mode);
\* filtered is the collection that reaches line 212
RecommendMoviesResult(frame, keywords, genres, top_n, kmode, gmode, tie) ==
    LET kw == IF keywords # <<>>
              THEN KeywordMatch(frame.cols, frame.rows, keywords, kmode)
              ELSE Success(frame.rows)
        ge == IF kw.ok /\ genres # <<>>
              THEN GenreFilter(frame.cols, kw.rows, genres, gmode)
              ELSE kw
    IN  IF ~ge.ok
        THEN [ok |-> FALSE, error |-> ge.error, filtered |-> <<>>, rows |-> <<>>]
        ELSE IF ge.rows = <<>>
        THEN [ok |-> TRUE, error |-> "none", filtered |-> <<>>, rows |-> <<>>]
        ELSE IF ~(ResultCols \subseteq frame.cols)
        THEN [ok |-> FALSE, error |-> "KeyError", filtered |-> ge.rows, rows |-> <<>>]
        ELSE LET sorted == SortByRating(ge.rows, tie)
             IN  [ok |-> TRUE, error |-> "none", filtered |-> ge.rows,
                  rows |-> HeadRows([k \in 1..Len(sorted) |-> Project(sorted[k])], top_n)]

\* the filters applied to the caller's collection itself
InputFilteredInPlace(frame, filtered) == [frame EXCEPT !.rows = filtered]

\* line 204: the call works on a copy, the caller's collection stays as it was
InputAfterCall(frame, filtered) == frame

-----------------------------------------------------------------------------
(* Inputs *)

SeqsUpTo(S, n) == UNION {[1..k -> S] : k \in 1..n}

PosId(i) == <<"s", DigitChars[i + 1]>>
PosTitle(i) == <<"T", DigitChars[i + 1]>>

RawRow(id, type, title, listed, desc, year) ==
    [show_id |-> id, type |-> type, title |-> title, listed_in |-> listed,
     description |-> desc, release_year |-> year]

sComedies == <<"C","o","m","e","d","i","e","s">>
sSchoolDesc == <<"A"," ","S","c","h","o","o","l">>
sBothDesc == <<"w","a","r"," ","s","c","h","o","o","l">>
s1985 == <<"1","9","8","5">>

IdPool ==
    { <<"s","1">>, <<" ","s","1">>, <<"s","2">>, sNan, sNone, <<>>, NA }

TypePool ==
    { sMovie, sMovieType, sTVShow, <<"t","v"," ","s","h","o","w">>,
      <<" ","M","O","V","I","E"," ">>, <<"t","v"," "," ","s","h","o","w">>,
      <<"D","o","c","u","m","e","n","t","a","r","y">>, NA }

YearPool ==
    { <<"1","8","9","9">>, <<"1","9","0","0">>, s1985, <<" ","2","0","2","7">>,
      <<"2","0","2","8">>, <<"1","9","9","9",".","0">>, <<"1","8","0","0",".","5">>,
      <<"a","b","c">>, NA }

ListedPool ==
    { <<"D","r","a","m","a","s">>,
      <<"H","o","r","r","o","r"," ","M","o","v","i","e","s",","," ","K","i","d","s">>,
      <<"B","r","i","t","i","s","h"," ","T","V"," ","S","h","o","w","s"," ",",","D","r","a","m","a","s",",","K","i","d","s">>,
      NA }

IdFrames ==
    { [cols |-> RawCols,
       rows |-> [i \in 1..Len(ids) |->
                    RawRow(ids[i], sMovie, PosTitle(i), sComedies, sSchoolDesc, s1985)]] :
      ids \in SeqsUpTo(IdPool, MaxRaw) }

TypeFrames ==
    { [cols |-> RawCols,
       rows |-> [i \in 1..Len(ts) |->
                    RawRow(PosId(i), ts[i], PosTitle(i), sComedies, sSchoolDesc, s1985)]] :
      ts \in SeqsUpTo(TypePool, MaxRaw) }

YearFrames ==
    { [cols |-> RawCols,
       rows |-> [i \in 1..Len(ys) |->
                    RawRow(PosId(i), sMovie, PosTitle(i), sComedies, sSchoolDesc, ys[i])]] :
      ys \in SeqsUpTo(YearPool, MaxRaw) }

GenreFrames ==
    { [cols |-> RawCols,
       rows |-> [i \in 1..Len(gs) |->
                    RawRow(PosId(gs[i][1]), sMovie, PosTitle(i), gs[i][2], sSchoolDesc, s1985)]] :
      gs \in SeqsUpTo((1..2) \X ListedPool, MaxRaw) }

sUp == <<"U","p">>
sHeat == <<"H","e","a","t">>
TitlePool == { sUp, <<" ","u","p">>, <<"H","e","a","t"," ">> }

ImdbEntry(i, title, type, rv) ==
    [tconst |-> <<"t","t", DigitChars[i + 1]>>, primaryTitle |-> title,
     titleType |-> type, averageRating |-> rv[1], numVotes |-> rv[2]]

ImdbPool ==
    {sUp, sHeat} \X
        (({sMovieType} \X {<<6, 50>>, <<8, 100>>, <<7, 100>>})
             \cup {<< <<"s","h","o","r","t">>, <<9, 200>> >>})

ImdbLists ==
    { [i \in 1..Len(es) |-> ImdbEntry(i, es[i][1], es[i][2][1], es[i][2][2])] :
      es \in {<<>>} \cup SeqsUpTo(ImdbPool, MaxImdb) }

TitleFrames ==
    { [cols |-> RawCols,
       rows |-> [i \in 1..Len(ts) |->
                    RawRow(PosId(i), sMovie, ts[i], sComedies, sSchoolDesc, s1985)]] :
      ts \in SeqsUpTo(TitlePool, MaxLoadRaw) }

\* raw collections whose descriptions may be empty, each title rated once
DescFrames ==
    { [cols |-> RawCols,
       rows |-> [i \in 1..Len(ds) |->
                    RawRow(PosId(i), sMovie, PosTitle(i),
                           <<"C","l","a","s","s","i","c"," ","M","o","v","i","e","s">>,
                           ds[i], s1985)]] :
      ds \in SeqsUpTo({sSchoolDesc, sBothDesc, <<" ">>}, MaxRows) }

RatedOnce ==
    [i \in 1..(MaxRows + 1) |->
        ImdbEntry(i, PosTitle(i), sMovieType, <<7 + (i % 2), 100>>)]

\* a collection as app.py expects it: with a genres_list column
FixtureCols == {"title", "description", "genres", "genres_list", "averageRating"}

DescPool == { sSchoolDesc, sBothDesc, NA }
GenresPool ==
    { << <<"C","l","a","s","s","i","c">> >>,
      << <<"K","i","d","s">>, <<"c","l","a","s","s","i","c">> >>,
      << <<>> >> }

FixtureRowPool ==
    (DescPool \X {<< <<"C","l","a","s","s","i","c">> >>} \X {7, 8})
    \cup ({sBothDesc} \X GenresPool \X {7, 8})

FixtureFrames ==
    { [cols |-> FixtureCols,
       rows |-> [i \in 1..Len(fs) |->
                    [title |-> PosTitle(i), description |-> fs[i][1], genres |-> fs[i][2],
                     genres_list |-> fs[i][2], averageRating |-> fs[i][3]]]] :
      fs \in SeqsUpTo(FixtureRowPool, MaxRows) }

KeywordLists ==
    { <<>>, << <<"W","a","r">> >>, << <<"s","c","h","o","o","l">>, <<"W","a","r">> >> }
GenreLists ==
    { <<>>, << <<"k","i","d","s">> >>, << <<"C","l","a","s","s","i","c">>, <<"k","i","d","s">> >> }

-----------------------------------------------------------------------------
(* The state machine *)

NoCall ==
    [called |-> FALSE, keywords |-> <<>>, genres |-> <<>>, top_n |-> 1,
     keyword_match_mode |-> "any", genre_match_mode |-> "any",
     ok |-> TRUE, error |-> "none", filtered |-> <<>>, rows |-> <<>>]

InitCommon ==
    /\ cleaned = EmptyFrame
    /\ exploded = NoExploded
    /\ lastCall = NoCall
    /\ repeated = FALSE
    /\ err = "none"

\* cleanNetflixData called on its own
InitClean ==
    /\ caller = "direct"
    /\ pc = "start"
    /\ raw \in IdFrames \cup TypeFrames \cup YearFrames \cup GenreFrames
    /\ imdb = <<>>
    /\ tieOrder = "original"
    /\ df = EmptyFrame
    /\ InitCommon

\* load_data: cleanNetflixData with its defaults, then add_ratings
InitLoad ==
    /\ caller = "load_data"
    /\ pc = "start"
    /\ raw \in TitleFrames
    /\ imdb \in ImdbLists
    /\ tieOrder \in TieOrders
    /\ df = EmptyFrame
    /\ InitCommon

\* app.py: load_data, then recommend_movies on what it returned
InitApp ==
    /\ caller = "load_data"
    /\ pc = "start"
    /\ raw \in DescFrames
    /\ imdb = RatedOnce
    /\ tieOrder \in TieOrders
    /\ df = EmptyFrame
    /\ InitCommon

\* recommend_movies on a collection supplied by its caller
InitFixture ==
    /\ caller = "fixture"
    /\ pc = "loaded"
    /\ raw = EmptyFrame
    /\ imdb = <<>>
    /\ tieOrder \in TieOrders
    /\ df \in FixtureFrames
    /\ InitCommon

Init == InitApp \/ InitFixture

CleanNetflixData ==
    /\ pc = "start"
    /\ \E explodeGenres \in (IF caller = "load_data" THEN {FALSE} ELSE BOOLEAN),
          standardizeGenres \in (IF caller = "load_data" THEN {TRUE} ELSE BOOLEAN) :
          LET r == CleanNetflixDataResult(raw, explodeGenres, standardizeGenres)
          IN  /\ pc' = IF r.ok THEN "cleaned" ELSE "failed"
              /\ err' = r.error
              /\ cleaned' = r.frame
              /\ exploded' = r.exploded
    /\ UNCHANGED <<caller, raw, imdb, tieOrder, df, lastCall, repeated>>

AddRatings ==
    /\ pc = "cleaned"
    /\ caller = "load_data"
    /\ df' = AddRatingsResult(cleaned, imdb, tieOrder)
    /\ pc' = "loaded"
    /\ UNCHANGED <<caller, raw, imdb, tieOrder, cleaned, exploded, lastCall, repeated, err>>

Call(keywords, genres, top_n, kmode, gmode) ==
    LET r == RecommendMoviesResult(df, keywords, genres, top_n, kmode, gmode, tieOrder)
    IN  /\ lastCall' =
               [called |-> TRUE, keywords |-> keywords, genres |-> genres,
                top_n |-> top_n, keyword_match_mode |-> kmode, genre_match_mode |-> gmode,
                ok |-> r.ok, error |-> r.error, filtered |-> r.filtered, rows |-> r.rows]
        /\ df' = InputAfterCall(df, r.filtered)

\* app.py line 33: a query on a collection that holds at least one row
RecommendMovies ==
    /\ pc = "loaded"
    /\ df.rows # <<>>
    /\ \E keywords \in KeywordLists, genres \in GenreLists, top_n \in 1..MaxTopN,
          kmode \in Modes, gmode \in Modes :
          Call(keywords, genres, top_n, kmode, gmode)
    /\ pc' = "shown"
    /\ repeated' = FALSE
    /\ UNCHANGED <<caller, raw, imdb, tieOrder, cleaned, exploded, err>>

\* the same query asked again while its result is on display
RecommendAgain ==
    /\ pc = "shown"
    /\ df.rows # <<>>
    /\ Call(lastCall.keywords, lastCall.genres, lastCall.top_n,
            lastCall.keyword_match_mode, lastCall.genre_match_mode)
    /\ repeated' = TRUE
    /\ UNCHANGED <<caller, pc, raw, imdb, tieOrder, cleaned, exploded, err>>

\* app.py lines 31-40: the result is a local of one script run; the next run
\* that is no button press shows none
Rerun ==
    /\ pc = "shown"
    /\ pc' = "loaded"
    /\ lastCall' = NoCall
    /\ repeated' = FALSE
    /\ UNCHANGED <<caller, raw, imdb, tieOrder, cleaned, exploded, df, err>>

NextClean == CleanNetflixData
NextLoad == CleanNetflixData \/ AddRatings
Next == CleanNetflixData \/ AddRatings \/ RecommendMovies \/ RecommendAgain \/ Rerun

SpecClean == InitClean /\ [][NextClean]_vars
SpecLoad == InitLoad /\ [][NextLoad]_vars
Spec == Init /\ [][Next]_vars

-----------------------------------------------------------------------------
(* Claims *)

RawOf(r) == raw.rows[r.row_idx]

\* the records kept are the first of each identifier, keys[i] being the
\* identifier of raw record i as it is compared
KeptFirstBy(keys) ==
    LET n     == Len(raw.rows)
        first == {i \in 1..n : \A j \in 1..(i - 1) : keys[j] # keys[i]}
        out   == cleaned.rows
    IN  /\ Len(out) = Cardinality(first)
        /\ \A k \in 1..Len(out) :
              /\ out[k].row_idx \in first
              /\ out[k].title = NormalizeObject(RawOf(out[k]).title)
        /\ \A k, l \in 1..Len(out) :
              k < l => /\ out[k].row_idx < out[l].row_idx
                       /\ out[k].show_id # out[l].show_id

\* an identifier after whitespace trimming; an empty cell is no text
TrimmedId(v) == IF v = NA \/ Strip(v) = <<>> THEN NA ELSE Strip(v)

\* C4 as stated: cleanNetflixData returns pairwise distinct show_ids, keeping for
\* each identifier (compared after whitespace trimming) the first raw record that
\* carries it, in the original order.
C4_FirstPerTrimmedId ==
    pc = "cleaned" =>
        KeptFirstBy([i \in 1..Len(raw.rows) |-> TrimmedId(raw.rows[i].show_id)])

\* C4 amended: the same with identifiers compared after trimming and after the
\* texts "", "nan" and "None" have become the one missing identifier.
C4_FirstPerNormalizedId ==
    pc = "cleaned" =>
        KeptFirstBy([i \in 1..Len(raw.rows) |-> NormalizeObject(raw.rows[i].show_id)])

C4_Witness ==
    /\ pc = "cleaned"
    /\ Len(cleaned.rows) = 2
    /\ Len(raw.rows) = 3
    /\ \E i, j \in 1..3 :
          /\ i < j
          /\ raw.rows[i].show_id # raw.rows[j].show_id
          /\ NormalizeObject(raw.rows[i].show_id) = NormalizeObject(raw.rows[j].show_id)
          /\ NormalizeObject(raw.rows[i].show_id) # NA

\* C5 as stated: every cleaned record's type is "Movie", "TV Show" or missing
\* whatever the raw value was, and a record with a present type has exactly one of
\* is_movie / is_tv set.
C5_TypeInDomain ==
    pc = "cleaned" =>
        \A k \in 1..Len(cleaned.rows) :
            LET r == cleaned.rows[k]
            IN  /\ r.type \in {sMovie, sTVShow, NA}
                /\ r.type # NA => (r.is_movie /\ ~r.is_tv) \/ (r.is_tv /\ ~r.is_movie)

sLowerTvShow == <<"t","v"," ","s","h","o","w">>

\* C5 amended: the type is "Movie" exactly when the trimmed raw value is "movie"
\* letter case aside, "TV Show" exactly when it is "tv show" letter case aside,
\* missing exactly when the raw value is empty; no record has both flags, and
\* is_movie / is_tv say whether the type is "Movie" / "TV Show".
C5_TypeNormalized ==
    pc = "cleaned" =>
        \A k \in 1..Len(cleaned.rows) :
            LET r == cleaned.rows[k]
                v == NormalizeObject(RawOf(r).type)
            IN  /\ r.type = sMovie <=> (v # NA /\ StrLower(v) = sMovieType)
                /\ r.type = sTVShow <=> (v # NA /\ StrLower(v) = sLowerTvShow)
                /\ r.type = NA <=> v = NA
                /\ ~(r.is_movie /\ r.is_tv)
                /\ r.is_movie <=> r.type = sMovie
                /\ r.is_tv <=> r.type = sTVShow

C5_Witness ==
    /\ pc = "cleaned"
    /\ \E k \in 1..Len(cleaned.rows) :
          cleaned.rows[k].is_tv /\ RawOf(cleaned.rows[k]).type = sLowerTvShow
    /\ \E k \in 1..Len(cleaned.rows) :
          LET r == cleaned.rows[k] IN r.type # NA /\ ~r.is_movie /\ ~r.is_tv

\* C6: cleanNetflixData never raises on a release year; every cleaned release_year
\* is missing or within [1900, currentYear + 1]; a raw value that is out of range
\* or no number becomes missing, one in range is kept, and no record is removed
\* for its year.
C6_YearValidated ==
    pc # "start" =>
        /\ pc = "cleaned"
        /\ KeptFirstBy([i \in 1..Len(raw.rows) |-> NormalizeObject(raw.rows[i].show_id)])
        /\ \A k \in 1..Len(cleaned.rows) :
              LET y == cleaned.rows[k].release_year
                  n == ToNumeric(NormalizeObject(RawOf(cleaned.rows[k]).release_year))
                  inRange == ~n.na /\ 1900 <= n.val /\ n.val <= CurrentYear + 1
              IN  /\ y.na \/ (1900 <= y.val /\ y.val <= CurrentYear + 1)
                  /\ ~inRange => y.na
                  /\ inRange => (~y.na /\ y.val = n.val)

\* C10: with explodeGenres the projection describes the cleaned collection: each
\* of its identifiers is one of a cleaned record, and each cleaned record has
\* exactly one projection row per element of its genre list.
C10_ExplodedMatchesCleaned ==
    (pc = "cleaned" /\ exploded.made) =>
        /\ \A e \in 1..Len(exploded.rows) :
              \E k \in 1..Len(cleaned.rows) :
                  cleaned.rows[k].show_id = exploded.rows[e].show_id
        /\ \A k \in 1..Len(cleaned.rows) :
              Cardinality({e \in 1..Len(exploded.rows) :
                              exploded.rows[e].show_id = cleaned.rows[k].show_id})
                  = Len(cleaned.rows[k].genres)

MovieMatches(t) ==
    {i \in 1..Len(imdb) : imdb[i].titleType = sMovieType /\ imdb[i].primaryTitle = t}

\* C3: add_ratings returns at most one record per title; a title is in it exactly
\* when a cleaned record's title equals a movie entry's primary title; and the
\* rating and votes kept are those of a matching entry with the most votes.
C3_OnePerTitleHighestVotes ==
    pc = "loaded" =>
        /\ \A k, l \in 1..Len(df.rows) : k # l => df.rows[k].title # df.rows[l].title
        /\ \A c \in 1..Len(cleaned.rows) :
              (\E k \in 1..Len(df.rows) : df.rows[k].title = cleaned.rows[c].title)
                  <=> MovieMatches(cleaned.rows[c].title) # {}
        /\ \A k \in 1..Len(df.rows) :
              /\ \E c \in 1..Len(cleaned.rows) : cleaned.rows[c].title = df.rows[k].title
              /\ \E i \in MovieMatches(df.rows[k].title) :
                    /\ imdb[i].averageRating = df.rows[k].averageRating
                    /\ imdb[i].numVotes = df.rows[k].numVotes
                    /\ \A j \in MovieMatches(df.rows[k].title) :
                          imdb[j].numVotes <= imdb[i].numVotes

C3_Witness ==
    /\ pc = "loaded"
    /\ Len(df.rows) = 1
    /\ Len(cleaned.rows) = 2
    /\ \E i, j \in MovieMatches(df.rows[1].title) : imdb[i].numVotes < imdb[j].numVotes

RecordGenres(r) == IF "genres_list" \in df.cols THEN r.genres_list ELSE r.genres

\* the filter of C1 on one record
Survives(r, keywords, genres, kmode, gmode) ==
    /\ \/ keywords = <<>>
       \/ /\ r.description # NA
          /\ IF kmode = "all"
             THEN \A k \in 1..Len(keywords) : Matches(r.description, keywords[k])
             ELSE \E k \in 1..Len(keywords) : Matches(r.description, keywords[k])
    /\ \/ genres = <<>>
       \/ LET have == {StrLower(RecordGenres(r)[i]) : i \in 1..Len(RecordGenres(r))}
          IN  IF gmode = "all"
              THEN \A k \in 1..Len(genres) : StrLower(genres[k]) \in have
              ELSE \E k \in 1..Len(genres) : StrLower(genres[k]) \in have

\* C1: the records that survive the filters of a recommend_movies call are those
\* whose description contains a keyword (any) or every keyword (all), when
\* keywords are given, and whose genre list holds a requested genre (any) or
\* every requested genre (all), when genres are given.
C1_SurvivorsAreTheMatches ==
    lastCall.called =>
        /\ lastCall.ok
        /\ lastCall.filtered =
              SelectSeq(df.rows, LAMBDA r :
                  Survives(r, lastCall.keywords, lastCall.genres,
                           lastCall.keyword_match_mode, lastCall.genre_match_mode))

Min(a, b) == IF a < b THEN a ELSE b

\* C2 as stated: the result is the first min(top_n, survivors) records of the
\* survivors in descending averageRating, equal ratings in input order.
C2_StableTopN ==
    (lastCall.called /\ lastCall.ok) =>
        lastCall.rows =
            LET sorted == SortDescBy(lastCall.filtered, "averageRating", "original")
            IN  [k \in 1..Min(lastCall.top_n, Len(sorted)) |-> Project(sorted[k])]

\* C2 amended: the result holds min(top_n, survivors) of the survivors, in
\* descending averageRating, and no survivor left out is rated higher than one
\* included; the order among equal ratings is left open.
C2_TopNByRating ==
    (lastCall.called /\ lastCall.ok) =>
        LET res == lastCall.rows
            sur == lastCall.filtered
        IN  /\ Len(res) = Min(lastCall.top_n, Len(sur))
            /\ \A k \in 1..(Len(res) - 1) : res[k].averageRating >= res[k + 1].averageRating
            /\ \E f \in [1..Len(res) -> 1..Len(sur)] :
                  /\ \A k, l \in 1..Len(res) : k # l => f[k] # f[l]
                  /\ \A k \in 1..Len(res) : res[k] = Project(sur[f[k]])
                  /\ \A j \in 1..Len(sur) :
                        (\A k \in 1..Len(res) : f[k] # j) =>
                            \A k \in 1..Len(res) :
                                sur[j].averageRating <= res[k].averageRating

C2_Witness ==
    /\ lastCall.called
    /\ lastCall.ok
    /\ lastCall.top_n = 1
    /\ Len(lastCall.filtered) = 2
    /\ lastCall.filtered[1].averageRating < lastCall.filtered[2].averageRating
    /\ lastCall.rows = <<Project(lastCall.filtered[2])>>

FieldsRead == {"description", "genres_list", "averageRating", "title", "genres"}

\* C8: every column recommend_movies reads is one load_data produces, so a call
\* with genres on the collection load_data returned does not fail on a missing
\* column.
C8_LoadedHasFieldsRead ==
    (caller = "load_data" /\ lastCall.called /\ lastCall.genres # <<>>) =>
        /\ FieldsRead \subseteq df.cols
        /\ lastCall.error # "KeyError"

\* C9: with keywords given, a record whose description is missing is left out of
\* the result in either keyword mode, and does not make the call fail.
C9_MissingDescriptionExcluded ==
    (/\ lastCall.called
     /\ lastCall.keywords # <<>>
     /\ \E i \in 1..Len(df.rows) : df.rows[i].description = NA) =>
        /\ lastCall.error # "TypeError"
        /\ \A k \in 1..Len(lastCall.rows) : lastCall.rows[k].description # NA

====
